---- MODULE Spec2Model ----
(***************************************************************************)
(* Model of scrap_n_answer.py: link discovery, page scraping, detail       *)
(* extraction and the orchestration loop of main().                        *)
(*                                                                         *)
(* Strings are sequences of one-character strings, so that lower(),        *)
(* strip(), substring tests, joins and slices are computed, not assumed.   *)
(***************************************************************************)
EXTENDS Integers, Sequences, FiniteSets, TLC

VARIABLES
    pc,              \* position of main(): discover, scrape, extract, append, sleep, write, done, crashed
    i,               \* index into URLS of the site being processed (for url in URLS)
    relevant_pages,  \* main: relevant_pages
    j,               \* position of the generator over relevant_pages
    texts,           \* strings produced so far by scrape_text inside the join
    combined_text,   \* main: combined_text
    structured_data, \* main: structured_data
    results,         \* main: results
    csv,             \* contents of extracted_company_details_1.csv
    trace,           \* calls made while processing the current site, in order
    sleeps,          \* number of time.sleep(5) calls that have returned
    writes,          \* number of df.to_csv calls that have returned
    extracts,        \* number of extract_details calls made so far
    call,            \* a single function call under test: its name and arguments
    ret              \* what that call returned and printed

mainVars == <<pc, i, relevant_pages, j, texts, combined_text, structured_data,
              results, csv, trace, sleeps, writes, extracts>>
callVars == <<call, ret>>
vars == <<pc, i, relevant_pages, j, texts, combined_text, structured_data,
          results, csv, trace, sleeps, writes, extracts, call, ret>>

----------------------------------------------------------------------------
(* Bounds of the inputs *)

MaxAnchors == 2
MaxNodes == 2

----------------------------------------------------------------------------
(* Program constants *)

URLS ==
    << <<"h","t","t","p","s",":","/","/","l","e","n","o","v","o",".","c","o","m">>,
       <<"h","t","t","p","s",":","/","/","w","w","w",".","g","s","k",".","c","o","m">>,
       <<"h","t","t","p","s",":","/","/","w","w","w",".","t","c","s",".","c","o","m">>,
       <<"h","t","t","p","s",":","/","/","w","w","w",".","f","o","r","d",".","c","o","m">>,
       <<"h","t","t","p","s",":","/","/","w","w","w",".","s","i","e","m","e","n","s","-","e","n","e","r","g","y",".","c","o","m">>,
       <<"h","t","t","p","s",":","/","/","w","w","w",".","a","m","e","r","i","c","a","n","e","x","p","r","e","s","s",".","c","o","m">> >>

RELEVANT_LINKS ==
    << <<"h","o","m","e">>,
       <<"a","b","o","u","t">>,
       <<"c","o","n","t","a","c","t">>,
       <<"s","e","r","v","i","c","e","s">>,
       <<"p","r","o","d","u","c","t","s">>,
       <<"C","o","n","t","a","c","t"," ","U","s">>,
       <<"A","b","o","u","t"," ","L","e","n","o","v","o">>,
       <<"I","n","v","e","s","t","o","r","s">>,
       <<"V","e","h","i","c","l","e","s">> >>

REMOVED_TAGS == {"script", "style", "header", "footer", "nav"}

TextLimit == 1000

SleepSeconds == 5

----------------------------------------------------------------------------
(* String helpers *)

Range(s) == {s[k] : k \in 1..Len(s)}

UpperChars == <<"A","B","C","D","E","F","G","H","I","J","K","L","M",
                "N","O","P","Q","R","S","T","U","V","W","X","Y","Z">>
LowerChars == <<"a","b","c","d","e","f","g","h","i","j","k","l","m",
                "n","o","p","q","r","s","t","u","v","w","x","y","z">>

LowerChar(c) ==
    IF \E k \in 1..Len(UpperChars) : UpperChars[k] = c
    THEN LowerChars[CHOOSE k \in 1..Len(UpperChars) : UpperChars[k] = c]
    ELSE c

\* str.lower()
Lower(s) == [k \in 1..Len(s) |-> LowerChar(s[k])]

\* keyword in href
Contains(kw, s) ==
    \E k \in 0..(Len(s) - Len(kw)) : SubSeq(s, k + 1, k + Len(kw)) = kw

StartsWith(s, p) == Len(s) >= Len(p) /\ SubSeq(s, 1, Len(p)) = p

Whitespace == {" ", "\n", "\t"}

\* str.strip()
Strip(s) ==
    LET keep == {k \in 1..Len(s) : s[k] \notin Whitespace}
    IN  IF keep = {} THEN <<>>
        ELSE LET lo == CHOOSE k \in keep : \A m \in keep : k <= m
                 hi == CHOOSE k \in keep : \A m \in keep : k >= m
             IN  SubSeq(s, lo, hi)

RECURSIVE JoinSp(_)
\* " ".join(parts)
JoinSp(parts) ==
    IF parts = <<>> THEN <<>>
    ELSE IF Len(parts) = 1 THEN parts[1]
    ELSE parts[1] \o <<" ">> \o JoinSp(Tail(parts))

\* list(set(xs)): the elements of xs once each, in an order the build picks
ListOfSet(xs) ==
    LET S == Range(xs)
    IN  {f \in [1..Cardinality(S) -> S] :
            \A a, b \in 1..Cardinality(S) : a # b => f[a] # f[b]}

----------------------------------------------------------------------------
(* HTTP responses as the functions see them *)

FetchErrors == {"connection_error", "timeout", "http_error"}

\* requests.get(...) followed by raise_for_status(): no RequestException
FetchOk(resp) == resp.status = "ok"

----------------------------------------------------------------------------
(* Link discovery *)

HttpPrefix  == <<"h","t","t","p",":","/","/">>
HttpsPrefix == <<"h","t","t","p","s",":","/","/">>

\* requests.compat.urljoin(base_url, href) for a base URL with an empty path
\* and an href that is absolute, root-relative or a plain relative path
urljoin(base_url, href) ==
    IF StartsWith(href, HttpsPrefix) \/ StartsWith(href, HttpPrefix) THEN href
    ELSE IF StartsWith(href, <<"/">>) THEN base_url \o href
    ELSE base_url \o <<"/">> \o href

\* anchors of the page that carry an href: soup.find_all("a", href=True)
AnchorsWithHref(body) == SelectSeq(body, LAMBDA a : a.has_href)

\* any(keyword in href for keyword in RELEVANT_LINKS)
IsRelevant(href) ==
    \E k \in 1..Len(RELEVANT_LINKS) : Contains(RELEVANT_LINKS[k], href)

RECURSIVE CollectLinks(_, _)
\* the list `links` built by the loop over the anchors
CollectLinks(base_url, anchors) ==
    IF anchors = <<>> THEN <<>>
    ELSE LET href == Lower(Head(anchors).href)
             rest == CollectLinks(base_url, Tail(anchors))
         IN  IF IsRelevant(href)
             THEN <<urljoin(base_url, href)>> \o rest
             ELSE rest

\* except requests.HTTPError in place of except requests.RequestException
get_relevant_links_HttpErrorOnly(base_url, resp) ==
    IF resp.status = "http_error"
    THEN {[status |-> "returned", value |-> <<>>, parsed |-> FALSE,
           printed |-> <<[line |-> "Error fetching", url |-> base_url]>>]}
    ELSE IF ~FetchOk(resp)
    THEN {[status |-> "raised", value |-> <<>>, parsed |-> FALSE, printed |-> <<>>]}
    ELSE LET links == CollectLinks(base_url, AnchorsWithHref(resp.body))
         IN  {[status |-> "returned", value |-> r, parsed |-> TRUE,
               printed |-> [k \in 1..Len(links) |->
                              [line |-> "Found relevant link", url |-> links[k]]]]
              : r \in ListOfSet(links)}

\* get_relevant_links(base_url): the set of outcomes of one call, each with
\* the returned list, the lines printed and whether the body was parsed
get_relevant_links(base_url, resp) ==
    IF ~FetchOk(resp)
    THEN {[status |-> "returned", value |-> <<>>, parsed |-> FALSE,
           printed |-> <<[line |-> "Error fetching", url |-> base_url]>>]}
    ELSE LET links == CollectLinks(base_url, AnchorsWithHref(resp.body))
         IN  {[status |-> "returned", value |-> r, parsed |-> TRUE,
               printed |-> [k \in 1..Len(links) |->
                              [line |-> "Found relevant link", url |-> links[k]]]]
              : r \in ListOfSet(links)}

----------------------------------------------------------------------------
(* Page scraping *)

\* A parsed page is a sequence of nodes; a node is a text node (tag "#text")
\* or an element with its children in document order.
TextNode(s) == [tag |-> "#text", text |-> s, kids |-> <<>>]
Element(t, ks) == [tag |-> t, text |-> <<>>, kids |-> ks]

\* only the elements directly under the root taken out
RemoveTags_TopLevelOnly(nodes) ==
    SelectSeq(nodes, LAMBDA n : n.tag \notin REMOVED_TAGS)

RECURSIVE RemoveTags(_)
\* for tag in soup(["script", "style", "header", "footer", "nav"]): tag.extract()
RemoveTags(nodes) ==
    IF nodes = <<>> THEN <<>>
    ELSE LET n == Head(nodes)
             rest == RemoveTags(Tail(nodes))
         IN  IF n.tag = "#text" THEN <<n>> \o rest
             ELSE IF n.tag \in REMOVED_TAGS THEN rest
             ELSE <<Element(n.tag, RemoveTags(n.kids))>> \o rest

RECURSIVE StrippedStrings(_)
\* soup.stripped_strings: every string of the tree in document order,
\* stripped, the ones that are empty after stripping left out
StrippedStrings(nodes) ==
    IF nodes = <<>> THEN <<>>
    ELSE LET n == Head(nodes)
             rest == StrippedStrings(Tail(nodes))
         IN  IF n.tag = "#text"
             THEN (IF Strip(n.text) = <<>> THEN rest ELSE <<Strip(n.text)>> \o rest)
             ELSE StrippedStrings(n.kids) \o rest

\* text[:1000]
Truncate(text) ==
    IF Len(text) <= TextLimit THEN text ELSE SubSeq(text, 1, TextLimit)

\* scrape_text(url): what one call returns and prints
scrape_text(url, resp) ==
    IF ~FetchOk(resp)
    THEN [status |-> "returned", value |-> <<>>,
          printed |-> <<[line |-> "Error scraping", url |-> url]>>]
    ELSE LET text == JoinSp(StrippedStrings(RemoveTags(resp.body)))
         IN  [status |-> "returned", value |-> Truncate(text), printed |-> <<>>]

----------------------------------------------------------------------------
(* Inputs of the single-call specifications *)

RECURSIVE SeqsUpTo(_, _)
SeqsUpTo(S, n) ==
    IF n = 0 THEN {<<>>}
    ELSE LET shorter == SeqsUpTo(S, n - 1)
         IN  shorter \cup {Append(q, x) : q \in shorter, x \in S}

Hrefs ==
    { <<"/","a","b","o","u","t">>,
      <<"/","A","b","o","u","t">>,
      <<"/","I","n","v","e","s","t","o","r","s">>,
      <<"/","n","e","w","s">>,
      <<"c","o","n","t","a","c","t">>,
      <<"h","t","t","p","s",":","/","/","x",".","o","r","g","/","h","o","m","e">> }

Anchors ==
    {[has_href |-> FALSE, href |-> <<>>]} \cup
    {[has_href |-> TRUE, href |-> h] : h \in Hrefs}

HomePages == SeqsUpTo(Anchors, MaxAnchors)

LongText == [k \in 1..TextLimit |-> "x"]

PageNodes ==
    {TextNode(t) : t \in {<<"a">>, <<" ","b","\n">>, <<"\n">>, LongText}} \cup
    {Element(t, <<TextNode(<<"c">>)>>) : t \in REMOVED_TAGS \cup {"div"}} \cup
    { Element("div", <<TextNode(<<"d">>),
                       Element("nav", <<TextNode(<<"n">>)>>),
                       TextNode(<<"e"," ">>)>>),
      Element("footer", <<Element("div", <<TextNode(<<"m">>)>>)>>),
      Element("div", <<Element("script", <<TextNode(<<"j">>)>>),
                       Element("p", <<TextNode(<<"\t","q">>)>>)>>) }

PageBodies == SeqsUpTo(PageNodes, MaxNodes)

Responses(bodies) ==
    {[status |-> "ok", body |-> b] : b \in bodies} \cup
    {[status |-> e, body |-> <<>>] : e \in FetchErrors}

Pending == [status |-> "pending"]
NoCall == [fn |-> "none"]

\* main() is not running
MainIdle ==
    /\ pc = "idle" /\ i = 0 /\ relevant_pages = <<>> /\ j = 0 /\ texts = <<>>
    /\ combined_text = <<>> /\ structured_data = <<>> /\ results = <<>>
    /\ csv = <<>> /\ trace = <<>> /\ sleeps = 0 /\ writes = 0 /\ extracts = 0

InitLinks ==
    /\ MainIdle
    /\ call \in {[fn |-> "get_relevant_links", base_url |-> URLS[k], resp |-> r] :
                    k \in 1..Len(URLS), r \in Responses(HomePages)}
    /\ ret = Pending

CallGetRelevantLinks ==
    /\ call.fn = "get_relevant_links"
    /\ ret = Pending
    /\ ret' \in get_relevant_links(call.base_url, call.resp)
    /\ UNCHANGED <<call, mainVars>>

SpecLinks == InitLinks /\ [][CallGetRelevantLinks]_vars

InitScrape ==
    /\ MainIdle
    /\ call \in {[fn |-> "scrape_text", url |-> urljoin(URLS[1], h), resp |-> r] :
                    h \in {<<"/","a","b","o","u","t">>}, r \in Responses(PageBodies)}
    /\ ret = Pending

CallScrapeText ==
    /\ call.fn = "scrape_text"
    /\ ret = Pending
    /\ ret' = scrape_text(call.url, call.resp)
    /\ UNCHANGED <<call, mainVars>>

SpecScrape == InitScrape /\ [][CallScrapeText]_vars

----------------------------------------------------------------------------
(* Detail extraction *)

MODELS == <<"gemini-2.0-pro-exp", "gemini-1.5-pro", "gemini-2.0-flash">>

\* What llm.generate_content(prompt) followed by response.text can do:
\* give a text, raise a requests.RequestException, or raise anything else
\* (an error of the model client, a response without text)
ApiOutcomes ==
    {[status |-> "ok", text |-> t] :
        t \in {<<"d">>, <<" ","d","\n">>, <<"\n">>}} \cup
    {[status |-> e, text |-> <<>>] : e \in {"request_exception", "other_error"}}

\* except Exception in place of except requests.RequestException
extract_details_CatchAll(text, model, api) ==
    IF api.status = "ok"
    THEN [status |-> "returned", value |-> Strip(api.text), printed |-> <<>>]
    ELSE [status |-> "returned", value |-> <<>>,
          printed |-> <<[line |-> "Error extracting details due to a request issue",
                         url |-> <<>>]>>]

\* extract_details(text) when random.choice picked `model` and the model call
\* behaved as `api`: returns a string, or raises
extract_details(text, model, api) ==
    IF api.status = "ok"
    THEN [status |-> "returned", value |-> Strip(api.text), printed |-> <<>>]
    ELSE IF api.status = "request_exception"
    THEN [status |-> "returned", value |-> <<>>,
          printed |-> <<[line |-> "Error extracting details due to a request issue",
                         url |-> <<>>]>>]
    ELSE [status |-> "raised", value |-> <<>>, printed |-> <<>>]

----------------------------------------------------------------------------
(* main() *)

MainBodies ==
    { <<Element("div", <<TextNode(<<"a">>)>>)>>,
      <<Element("nav", <<TextNode(<<"c">>)>>)>> }

\* homepages main() meets: anchors to /about and to contact
MainHomePages ==
    SeqsUpTo({[has_href |-> TRUE, href |-> h] :
                 h \in {<<"/","a","b","o","u","t">>, <<"c","o","n","t","a","c","t">>}},
             MaxAnchors)

NoFile == [exists |-> FALSE, header |-> <<>>, rows |-> <<>>]
OldFile == [exists |-> TRUE, header |-> <<"old">>, rows |-> <<>>]

\* pd.DataFrame(results).to_csv(path, index=False) for a non-empty results
ToCsv(rs) ==
    [exists |-> TRUE,
     header |-> <<"URL", "Extracted Details">>,
     rows |-> [k \in 1..Len(rs) |-> <<rs[k].URL, rs[k].Extracted_Details>>]]

\* the outcome of a step that is not a model call
Fetched(st) == [status |-> st, text |-> <<>>]

\* the error lines among the lines a call printed
ErrorLines(printed) ==
    SelectSeq(printed, LAMBDA l : l.line # "Found relevant link")

\* one entry of trace: the call, its argument, what the outside world did,
\* what the call returned and the error lines it printed
Event(e, a, o, v, p) ==
    [ev |-> e, arg |-> a, outcome |-> o, value |-> v, printed |-> ErrorLines(p)]

Init ==
    /\ pc = "discover"
    /\ i = 1
    /\ relevant_pages = <<>>
    /\ j = 0
    /\ texts = <<>>
    /\ combined_text = <<>>
    /\ structured_data = <<>>
    /\ results = <<>>
    /\ csv \in {NoFile, OldFile}
    /\ trace = <<>>
    /\ sleeps = 0
    /\ writes = 0
    /\ extracts = 0
    /\ call = NoCall
    /\ ret = Pending

\* relevant_pages = get_relevant_links(url)
Discover ==
    /\ pc = "discover"
    /\ \E resp \in Responses(MainHomePages) :
         \E r \in get_relevant_links(URLS[i], resp) :
            /\ relevant_pages' = r.value
            /\ trace' = <<Event("get_relevant_links", URLS[i], Fetched(resp.status),
                                r.value, r.printed)>>
    /\ j' = 1
    /\ texts' = <<>>
    /\ pc' = "scrape"
    /\ UNCHANGED <<i, combined_text, structured_data, results, csv, sleeps,
                   writes, extracts, callVars>>

\* the remaining links given up after a failed fetch
Scrape_StopOnError ==
    /\ pc = "scrape"
    /\ j <= Len(relevant_pages)
    /\ \E resp \in Responses(MainBodies) :
         LET r == scrape_text(relevant_pages[j], resp)
         IN  /\ texts' = Append(texts, r.value)
             /\ trace' = Append(trace, Event("scrape_text", relevant_pages[j],
                                             Fetched(resp.status), r.value, r.printed))
             /\ j' = (IF FetchOk(resp) THEN j + 1 ELSE Len(relevant_pages) + 1)
    /\ UNCHANGED <<pc, i, relevant_pages, combined_text, structured_data,
                   results, csv, sleeps, writes, extracts, callVars>>

\* one item of the generator: scrape_text(link)
Scrape ==
    /\ pc = "scrape"
    /\ j <= Len(relevant_pages)
    /\ \E resp \in Responses(MainBodies) :
         LET r == scrape_text(relevant_pages[j], resp)
         IN  /\ texts' = Append(texts, r.value)
             /\ trace' = Append(trace, Event("scrape_text", relevant_pages[j],
                                             Fetched(resp.status), r.value, r.printed))
    /\ j' = j + 1
    /\ UNCHANGED <<pc, i, relevant_pages, combined_text, structured_data,
                   results, csv, sleeps, writes, extracts, callVars>>

\* the empty page texts left out of the join
Join_SkipEmpty ==
    /\ pc = "scrape"
    /\ j > Len(relevant_pages)
    /\ LET kept == SelectSeq(texts, LAMBDA t : t # <<>>)
       IN  /\ combined_text' = JoinSp(kept)
           /\ trace' = Append(trace, Event("join", <<>>, Fetched("ok"), JoinSp(kept), <<>>))
    /\ pc' = "extract"
    /\ UNCHANGED <<i, relevant_pages, j, texts, structured_data, results, csv,
                   sleeps, writes, extracts, callVars>>

\* combined_text = " ".join(...) once the generator is exhausted
Join ==
    /\ pc = "scrape"
    /\ j > Len(relevant_pages)
    /\ combined_text' = JoinSp(texts)
    /\ trace' = Append(trace, Event("join", <<>>, Fetched("ok"), JoinSp(texts), <<>>))
    /\ pc' = "extract"
    /\ UNCHANGED <<i, relevant_pages, j, texts, structured_data, results, csv,
                   sleeps, writes, extracts, callVars>>

\* structured_data = extract_details(combined_text)
Extract ==
    /\ pc = "extract"
    /\ \E m \in Range(MODELS), api \in ApiOutcomes :
         LET r == extract_details(combined_text, m, api)
         IN  /\ trace' = Append(trace, Event("extract_details", combined_text,
                                             api, r.value, r.printed))
             /\ IF r.status = "raised"
                THEN pc' = "crashed" /\ UNCHANGED structured_data
                ELSE pc' = "append" /\ structured_data' = r.value
    /\ extracts' = extracts + 1
    /\ UNCHANGED <<i, relevant_pages, j, texts, combined_text, results, csv,
                   sleeps, writes, callVars>>

\* a row only for a site with details
AppendResult_SkipEmpty ==
    /\ pc = "append"
    /\ results' = (IF structured_data = <<>> THEN results
                   ELSE Append(results, [URL |-> URLS[i],
                                         Extracted_Details |-> structured_data]))
    /\ trace' = Append(trace, Event("append", URLS[i], Fetched("ok"), structured_data, <<>>))
    /\ pc' = "sleep"
    /\ UNCHANGED <<i, relevant_pages, j, texts, combined_text, structured_data,
                   csv, sleeps, writes, extracts, callVars>>

\* the file rewritten after every site
AppendResult_WriteThrough ==
    /\ pc = "append"
    /\ results' = Append(results, [URL |-> URLS[i],
                                   Extracted_Details |-> structured_data])
    /\ csv' = ToCsv(results')
    /\ trace' = Append(trace, Event("append", URLS[i], Fetched("ok"), structured_data, <<>>))
    /\ pc' = "sleep"
    /\ UNCHANGED <<i, relevant_pages, j, texts, combined_text, structured_data,
                   sleeps, writes, extracts, callVars>>

\* results.insert(0, ...) in place of results.append(...)
AppendResult_Prepend ==
    /\ pc = "append"
    /\ results' = <<[URL |-> URLS[i], Extracted_Details |-> structured_data]>>
                     \o results
    /\ trace' = Append(trace, Event("append", URLS[i], Fetched("ok"), structured_data, <<>>))
    /\ pc' = "sleep"
    /\ UNCHANGED <<i, relevant_pages, j, texts, combined_text, structured_data,
                   csv, sleeps, writes, extracts, callVars>>

\* results.append({"URL": url, "Extracted Details": structured_data})
AppendResult ==
    /\ pc = "append"
    /\ results' = Append(results, [URL |-> URLS[i],
                                   Extracted_Details |-> structured_data])
    /\ trace' = Append(trace, Event("append", URLS[i], Fetched("ok"), structured_data, <<>>))
    /\ pc' = "sleep"
    /\ UNCHANGED <<i, relevant_pages, j, texts, combined_text, structured_data,
                   csv, sleeps, writes, extracts, callVars>>

\* the sleep only between two sites
Sleep_NotAfterLast ==
    /\ pc = "sleep"
    /\ IF i < Len(URLS)
       THEN /\ sleeps' = sleeps + 1
            /\ trace' = Append(trace, Event("sleep", SleepSeconds, Fetched("ok"), <<>>, <<>>))
            /\ i' = i + 1 /\ pc' = "discover"
       ELSE /\ UNCHANGED <<sleeps, trace>>
            /\ i' = i /\ pc' = "write"
    /\ UNCHANGED <<relevant_pages, j, texts, combined_text, structured_data,
                   results, csv, writes, extracts, callVars>>

\* time.sleep(5), then the next url of the for loop or the end of the loop
Sleep ==
    /\ pc = "sleep"
    /\ sleeps' = sleeps + 1
    /\ trace' = Append(trace, Event("sleep", SleepSeconds, Fetched("ok"), <<>>, <<>>))
    /\ IF i < Len(URLS)
       THEN i' = i + 1 /\ pc' = "discover"
       ELSE i' = i /\ pc' = "write"
    /\ UNCHANGED <<relevant_pages, j, texts, combined_text, structured_data,
                   results, csv, writes, extracts, callVars>>

\* df = pd.DataFrame(results); df.to_csv(..., index=False)
WriteCsv ==
    /\ pc = "write"
    /\ csv' = ToCsv(results)
    /\ writes' = writes + 1
    /\ pc' = "done"
    /\ UNCHANGED <<i, relevant_pages, j, texts, combined_text, structured_data,
                   results, trace, sleeps, extracts, callVars>>

Next ==
    \/ Discover
    \/ Scrape
    \/ Join
    \/ Extract
    \/ AppendResult
    \/ Sleep
    \/ WriteCsv

Spec == Init /\ [][Next]_vars

----------------------------------------------------------------------------
(* Vocabulary of the properties *)

IsPrefix(a, b) == Len(a) <= Len(b) /\ SubSeq(b, 1, Len(a)) = a

NumSites == Len(URLS)

\* positions of the events of one kind in the trace of the current site
EventsOf(name) == {k \in 1..Len(trace) : trace[k].ev = name}

LastEv == IF trace = <<>> THEN "none" ELSE trace[Len(trace)].ev

AllSpaces(s) == \A k \in 1..Len(s) : s[k] = " "

\* the file holds the header and one row per seed URL, in seed order
CsvComplete ==
    /\ csv.exists
    /\ csv.header = <<"URL", "Extracted Details">>
    /\ Len(csv.rows) = NumSites
    /\ \A k \in 1..NumSites : csv.rows[k][1] = URLS[k]

\* the file is as it was before the run
CsvUntouched == csv \in {NoFile, OldFile}

\* every scrape_text call of the current site has returned, each after a
\* failed fetch, and extract_details is about to be called
AllScrapesFailed ==
    /\ pc = "extract"
    /\ \A k \in EventsOf("scrape_text") :
          trace[k].outcome.status \in FetchErrors /\ trace[k].value = <<>>

----------------------------------------------------------------------------
(* C1 *)

\* C1 as stated: whatever calls fail, a run that has ended has written the
\* CSV with the header and exactly one row per seed URL.
C1_AsStated == pc \in {"done", "crashed"} => CsvComplete

\* C1 amended: a run in which no uncaught error is raised ends with the CSV
\* written with the header and exactly one row per seed URL, and a site whose
\* extraction failed with a caught requests.RequestException has its row,
\* with empty details.
C1_RowPerSeed ==
    /\ pc = "done" => CsvComplete
    /\ \A k \in EventsOf("extract_details") :
          (trace[k].outcome.status = "request_exception"
             /\ pc \in {"sleep", "write", "done"})
          => /\ Len(results) >= i
             /\ results[i] = [URL |-> URLS[i], Extracted_Details |-> <<>>]
             /\ (pc = "done" => csv.rows[i] = <<URLS[i], <<>> >>)

C1_Witness ==
    /\ pc = "done"
    /\ CsvComplete
    /\ \E k \in EventsOf("extract_details") :
          trace[k].outcome.status = "request_exception"
    /\ trace[1].outcome.status = "timeout"

----------------------------------------------------------------------------
(* C3 *)

\* C3 as stated: when every discovered page fails to scrape, extract_details
\* is invoked with exactly the empty string, for any number of links.
C3_AsStated == AllScrapesFailed => combined_text = <<>>

\* C3 amended: when every discovered page fails to scrape, extract_details is
\* invoked with max(0, n-1) space characters, n the number of discovered
\* links (the empty string for n <= 1), and it raises for no such input
\* unless the model call itself raises.
C3_SpacesOnly ==
    AllScrapesFailed =>
        /\ AllSpaces(combined_text)
        /\ Len(combined_text) =
              (IF Len(relevant_pages) = 0 THEN 0 ELSE Len(relevant_pages) - 1)
        /\ (Len(relevant_pages) <= 1 => combined_text = <<>>)
        /\ \A m \in Range(MODELS), api \in ApiOutcomes :
              api.status # "other_error"
              => extract_details(combined_text, m, api).status = "returned"

C3_Witness ==
    /\ AllScrapesFailed
    /\ Len(relevant_pages) = 2
    /\ Cardinality(EventsOf("scrape_text")) = 2
    /\ combined_text = <<" ">>

----------------------------------------------------------------------------
(* C6 *)

\* the calls made for one site with n discovered links, in program order
SiteOrder(n) ==
    <<"get_relevant_links">> \o [k \in 1..n |-> "scrape_text"] \o
    <<"join", "extract_details", "append", "sleep">>

\* the site the trace belongs to: the loop variable moves on with the sleep
TraceSite == IF pc = "discover" THEN i - 1 ELSE i

C6_Order ==
    /\ i \in 1..NumSites
    /\ IsPrefix([k \in 1..Len(trace) |-> trace[k].ev],
                SiteOrder(Len(relevant_pages)))
    /\ trace # <<>> => trace[1].arg = URLS[TraceSite]
    /\ \A k \in EventsOf("scrape_text") : trace[k].arg = relevant_pages[k - 1]
    /\ \A k \in EventsOf("sleep") : trace[k].arg = SleepSeconds
    /\ sleeps = (IF LastEv = "sleep" THEN TraceSite ELSE i - 1)
    /\ pc = "discover" => LastEv \in {"none", "sleep"}
    /\ pc = "scrape" => Len(trace) = j
    /\ pc = "extract" => LastEv = "join"
    /\ pc \in {"append", "crashed"} => LastEv = "extract_details"
    /\ pc = "sleep" => LastEv = "append"
    /\ pc \in {"write", "done"} => LastEv = "sleep" /\ i = NumSites /\ sleeps = NumSites
    /\ writes = (IF pc = "done" THEN 1 ELSE 0)

C6_Step ==
    /\ i' = i \/ (i' = i + 1 /\ pc = "sleep" /\ sleeps' = i /\ pc' = "discover")
    /\ trace' # trace =>
          \/ Len(trace') = Len(trace) + 1 /\ IsPrefix(trace, trace')
          \/ /\ pc = "discover" /\ LastEv \in {"none", "sleep"}
             /\ Len(trace') = 1 /\ sleeps = i - 1
    /\ writes' # writes => pc = "write" /\ sleeps = NumSites /\ writes' = 1

----------------------------------------------------------------------------
(* C7 *)

C7_State ==
    /\ pc # "done" => CsvUntouched /\ writes = 0
    /\ pc = "crashed" => csv.rows = <<>>

C7_Step ==
    /\ csv' # csv => pc = "write" /\ Len(results) = NumSites /\ pc' = "done"
    /\ pc # "crashed"

\* C7: a run ended by an uncaught error never writes or modifies the CSV
\* file, whatever the site it ends at, so the records of earlier sites are
\* lost; the file changes only in the step that follows the last site.
C7_NoPartialResults == []C7_State /\ [][C7_Step]_vars

C7_Witness ==
    /\ pc = "crashed"
    /\ i = NumSites
    /\ Len(results) = NumSites - 1
    /\ csv = OldFile

----------------------------------------------------------------------------
(* C8 *)

\* v is t without its leading and trailing whitespace
IsTrimOf(v, t) ==
    /\ v = <<>> \/ (v[1] \notin Whitespace /\ v[Len(v)] \notin Whitespace)
    /\ \E a \in 0..Len(t) :
          /\ a + Len(v) <= Len(t)
          /\ SubSeq(t, a + 1, a + Len(v)) = v
          /\ \A k \in 1..Len(t) : (k <= a \/ k > a + Len(v)) => t[k] \in Whitespace

C8_State ==
    /\ Cardinality(EventsOf("extract_details")) <= 1
    /\ \A k \in EventsOf("extract_details") :
          LET e == trace[k] IN
          /\ e.outcome.status \in {"ok", "request_exception", "other_error"}
          /\ e.outcome.status = "ok" =>
                /\ IsTrimOf(e.value, e.outcome.text)
                /\ e.printed = <<>>
                /\ structured_data = e.value
                /\ pc # "crashed"
          /\ e.outcome.status = "request_exception" =>
                /\ e.value = <<>>
                /\ Len(e.printed) = 1
                /\ structured_data = <<>>
                /\ pc # "crashed"
          /\ e.outcome.status = "other_error" =>
                /\ pc = "crashed"
                /\ Len(results) = i - 1
                /\ CsvUntouched
    /\ pc = "crashed" => LastEv = "extract_details"

\* C8: extract_details returns the trimmed response text when the model call
\* succeeds, prints a line and returns "" on a requests.RequestException,
\* and lets any other error out, which ends main() there.
C8_ThreeOutcomes == []C8_State /\ [][pc # "crashed"]_vars

C8_Witness ==
    /\ pc = "append"
    /\ trace[Len(trace)].ev = "extract_details"
    /\ trace[Len(trace)].outcome = [status |-> "ok", text |-> <<" ","d","\n">>]
    /\ structured_data = <<"d">>

----------------------------------------------------------------------------
(* C9 *)

\* C9: every discovered link is fetched by scrape_text exactly once, a failed
\* fetch stops neither the remaining fetches nor the text of the fetches that
\* succeeded from reaching the combined text.
C9_EveryLinkOnce ==
    /\ \A m \in 1..Len(relevant_pages) :
          Cardinality({k \in EventsOf("scrape_text") :
                          trace[k].arg = relevant_pages[m]}) <= 1
    /\ EventsOf("join") # {} =>
          /\ \A m \in 1..Len(relevant_pages) :
                Cardinality({k \in EventsOf("scrape_text") :
                                trace[k].arg = relevant_pages[m]}) = 1
          /\ Cardinality(EventsOf("scrape_text")) = Len(relevant_pages)
          /\ \A k \in EventsOf("scrape_text") :
                /\ Contains(trace[k].value, combined_text)
                /\ trace[k].outcome.status \in FetchErrors => trace[k].value = <<>>
          /\ Len(combined_text) >= Len(relevant_pages) - 1
          /\ \A k \in EventsOf("extract_details") : trace[k].arg = combined_text

C9_Witness ==
    /\ pc = "extract"
    /\ Len(relevant_pages) = 2
    /\ trace[2].outcome.status = "timeout"
    /\ trace[3].outcome.status = "ok"
    /\ trace[3].value = <<"a">>
    /\ combined_text = <<" ", "a">>

----------------------------------------------------------------------------
(* C10 *)

C10_State ==
    /\ Len(results) = (IF pc \in {"sleep", "write", "done"} THEN i ELSE i - 1)
    /\ \A k \in 1..Len(results) : results[k].URL = URLS[k]
    /\ extracts = (IF pc \in {"append", "crashed"} THEN Len(results) + 1
                   ELSE Len(results))

C10_Step ==
    /\ IsPrefix(results, results')
    /\ Len(results') <= Len(results) + 1
    /\ extracts' # extracts => extracts' = extracts + 1 /\ pc = "extract"

\* C10: after k sites the result list holds k records, the i-th with the i-th
\* seed URL; records are only appended; extract_details has been called once
\* per completed site, also when discovery failed or found nothing.
C10_PrefixAligned == []C10_State /\ [][C10_Step]_vars

C10_Witness ==
    /\ pc = "sleep"
    /\ i = 3
    /\ Len(results) = 3
    /\ extracts = 3
    /\ trace[1].outcome.status = "connection_error"
    /\ relevant_pages = <<>>

----------------------------------------------------------------------------
(* C2 *)

\* href contains a keyword of RELEVANT_LINKS, letter case ignored
MatchesIgnoringCase(href) ==
    \E k \in 1..Len(RELEVANT_LINKS) :
        Contains(Lower(RELEVANT_LINKS[k]), Lower(href))

Occurrences(x, xs) == Cardinality({k \in 1..Len(xs) : xs[k] = x})

\* C2: for a fetched homepage, every anchor href that contains a keyword of
\* RELEVANT_LINKS, compared case-insensitively, has its URL resolved against
\* the base URL in the result, exactly once.
C2_MatchedOnce ==
    (call.fn = "get_relevant_links" /\ call.resp.status = "ok"
        /\ ret.status = "returned")
    => \A k \in 1..Len(call.resp.body) :
          LET a == call.resp.body[k] IN
          (a.has_href /\ MatchesIgnoringCase(a.href))
          => Occurrences(urljoin(call.base_url, a.href), ret.value) = 1

----------------------------------------------------------------------------
(* C4 *)

\* C4: when the GET of the base URL fails (connection failure, timeout,
\* non-2xx status), get_relevant_links prints one error line and returns an
\* empty list; nothing is raised and the body is not parsed.
C4_FailSoft ==
    (call.fn = "get_relevant_links" /\ call.resp.status \in FetchErrors
        /\ ret # Pending)
    => /\ ret.status = "returned"
       /\ ret.value = <<>>
       /\ ret.parsed = FALSE
       /\ ret.printed = <<[line |-> "Error fetching", url |-> call.base_url]>>

C4_Witness ==
    /\ call.fn = "get_relevant_links"
    /\ call.resp.status = "timeout"
    /\ ret.status = "returned"
    /\ ret.value = <<>>

----------------------------------------------------------------------------
(* C5 *)

RECURSIVE TextsOutsideRemoved(_)
\* the text nodes of the page that have no removed element above them,
\* as they stand in the page, in document order
TextsOutsideRemoved(nodes) ==
    IF nodes = <<>> THEN <<>>
    ELSE LET n == Head(nodes) IN
         (IF n.tag = "#text" THEN <<n.text>>
          ELSE IF n.tag \in REMOVED_TAGS THEN <<>>
          ELSE TextsOutsideRemoved(n.kids))
         \o TextsOutsideRemoved(Tail(nodes))

\* each text stripped, the empty ones dropped
StrippedNonEmpty(ts) ==
    LET stripped == [k \in 1..Len(ts) |-> Strip(ts[k])]
    IN  SelectSeq(stripped, LAMBDA t : t # <<>>)

ScrapeReturned == call.fn = "scrape_text" /\ ret.status = "returned"

\* C5 as stated: the result has at most 1000 characters, is empty when the
\* fetch fails, and otherwise is a prefix of the single-space join of the
\* text nodes outside script, style, header, footer and nav elements.
C5_AsStated ==
    ScrapeReturned =>
        /\ Len(ret.value) <= TextLimit
        /\ call.resp.status \in FetchErrors => ret.value = <<>>
        /\ call.resp.status = "ok" =>
              IsPrefix(ret.value, JoinSp(TextsOutsideRemoved(call.resp.body)))

\* C5 amended: the same, the text nodes being first stripped of leading and
\* trailing whitespace and the ones left empty dropped; the result is the
\* first 1000 characters of that join.
C5_StrippedPrefix ==
    ScrapeReturned =>
        LET full == JoinSp(StrippedNonEmpty(TextsOutsideRemoved(call.resp.body)))
        IN  /\ Len(ret.value) <= TextLimit
            /\ call.resp.status \in FetchErrors =>
                  ret.value = <<>> /\ Len(ret.printed) = 1
            /\ call.resp.status = "ok" =>
                  /\ IsPrefix(ret.value, full)
                  /\ Len(ret.value) = (IF Len(full) <= TextLimit THEN Len(full)
                                       ELSE TextLimit)

C5_Witness ==
    /\ ScrapeReturned
    /\ call.resp.status = "ok"
    /\ call.resp.body = <<Element("div", <<TextNode(<<"d">>),
                                           Element("nav", <<TextNode(<<"n">>)>>),
                                           TextNode(<<"e"," ">>)>>),
                          TextNode(LongText)>>
    /\ Len(ret.value) = TextLimit
    /\ SubSeq(ret.value, 1, 5) = <<"d"," ","e"," ","x">>

====
